---- MODULE Spec2Model ----
(***************************************************************************)
(* a911client: the connection supervisor Active911Xmpp (connect,           *)
(* reconnect with linear backoff, lifecycle events, message dispatch) and  *)
(* the Active911Client that drives it (the active911_xmpp loop and the     *)
(* HTTP gateway the message handler calls).                                *)
(*                                                                         *)
(* Everything runs on one cooperative event loop.  An action is one        *)
(* stretch of code between two suspension points (await asyncio.sleep,     *)
(* await of an HTTP response): the transport starts each event handler as  *)
(* its own task, so handlers interleave at their suspension points only.   *)
(***************************************************************************)
EXTENDS Integers, Sequences, FiniteSets, TLC

(* ---- settings (Active911Xmpp.__init__, overridable through param) ----
   max_reconnect_attempts and reconnect_delay default to 10 and 30; the model
   runs the configuration of the documented example (3 and 2). *)
max_reconnect_attempts == 3
reconnect_delay == 2
keepalive_interval == 10
keepalive_timeout == 5

(* ---- bounds of the model ---- *)
MaxDisconnects == 3       \* disconnected events the transport delivers
MaxConnectFailures == 2   \* connect calls that raise
MaxMessages == 2          \* inbound messages the transport delivers
MaxCalls == 3             \* gateway operations a caller invokes directly
MaxNumber == 9            \* the numbers a JSON text may hold

(* The two texts error_handler is called with. *)
TerminalMessage == "Max reconnect attempts reached"
ConnectFailure == "str(e)"

HandlerNames ==
  {"error_handler", "assignment_handler", "message_handler", "response_handler",
   "popup_handler", "unknown_command_handler", "connected_handler",
   "disconnected_handler"}

(* The handlers Active911Client.active911_xmpp registers on its supervisor. *)
ClientHandlers ==
  {"message_handler", "connected_handler", "error_handler", "disconnected_handler"}

(* A supervisor used on its own: no handler registered, or all of them. *)
BareHandlerConfigs == {{}, HandlerNames}

VARIABLES
  driver,              \* "client": Active911Client.active911_xmpp; "bare": run() called once
  handlers,            \* the handler attributes set on the supervisor (hasattr)
  connected,           \* Active911Xmpp.connected
  reconnect_attempts,  \* Active911Xmpp.reconnect_attempts
  keepalive,           \* xep_0199 keepalive: <<interval, timeout>>, <<>> while off
  presence,            \* "unsent" until send_presence(), then "available"
  transport,           \* the transport's connection: idle, connecting, up, session
  mainpc,              \* where the caller of run() stands
  sleepers,            \* try_reconnect invocations suspended in asyncio.sleep(delay)
  tryCalls,            \* try_reconnect invocations so far
  connectCalls,        \* self.connect(...) calls so far, failed ones included
  runFailures,         \* connect calls that raised inside run()
  runRaised,           \* Active911ConnectionError raised out of run()
  reconnectFailures,   \* connect calls that raised inside try_reconnect()
  error_calls,         \* error_handler invocations, per text
  discEvents,          \* disconnected events delivered
  lastDisconnect,      \* what disconnected_handler did at the last disconnected event
  escaped,             \* exceptions that left an event handler into the transport
  runDisc,             \* disconnected events since the last session_start
  runTry,              \* try_reconnect invocations since the last session_start
  runTerminal,         \* terminal error_handler invocations since the last session_start
  lastWait,            \* <<k, waited>> of the last connect call try_reconnect issued
  lastReset,           \* reconnect_attempts as the last session_start found it, -1 if none
  alert_handler,       \* whether Active911Client.alert_handler is set
  session,             \* Active911Client.session: "open", "closed", or "none" (None)
  inflight,            \* HTTP requests awaiting their response, one per suspended task
  reqSeq,              \* session.post calls so far
  is_registered,       \* Active911Client.is_registered
  is_authenticated,    \* Active911Client.is_authenticated
  credentials,         \* <<user_id, device_id, registration_code>> of the client
  opCalls,             \* invocations of the four gateway operations so far
  lastCall,            \* the last gateway operation that ended: what its caller got
  delivered,           \* inbound messages delivered so far
  message_calls,       \* message_handler invocations, in invocation order
  alert_calls,         \* alert_handler invocations, in invocation order
  lastDispatch,        \* what _on_message did with the last message
  msgErrors,           \* "Error processing message" entries logged by _on_message
  lastEvent,           \* the last of the events connected and disconnected delivered
  lastConnected,       \* what connected_handler did at the last connected event
  lastGiveUp,          \* the last reconnect procedure that ended at the ceiling
  alertOp,             \* the last Active911Alert operation applied
  alertIn,             \* what the first operation was given: a payload or a text
  record,              \* the Active911Alert built, or the exception raised
  json_str,            \* what to_json returned for record
  reread               \* what from_json returned for json_str

config == <<driver, handlers, alert_handler>>
sessionVars == <<keepalive, presence, lastReset>>
tryVars == <<sleepers, tryCalls, error_calls, runTry, runTerminal, lastGiveUp>>
connectVars == <<connectCalls, runFailures, runRaised, reconnectFailures, lastWait>>
discVars == <<discEvents, lastDisconnect, runDisc>>
lifecycleVars == <<lastEvent, lastConnected>>
accountVars == <<is_registered, is_authenticated, credentials>>
httpVars == <<session, inflight, reqSeq, alert_calls, accountVars, opCalls, lastCall>>
dispatchVars == <<delivered, message_calls, lastDispatch, msgErrors>>
alertVars == <<alertOp, alertIn, record, json_str, reread>>
supervisorVars ==
  <<config, connected, reconnect_attempts, transport, mainpc, escaped, sessionVars,
    tryVars, connectVars, discVars, lifecycleVars, httpVars, dispatchVars>>

vars ==
  <<driver, handlers, connected, reconnect_attempts, keepalive, presence,
    transport, mainpc, sleepers, tryCalls, connectCalls, runFailures, runRaised,
    reconnectFailures, error_calls, discEvents, lastDisconnect, escaped, runDisc,
    runTry, runTerminal, lastWait, lastReset, alert_handler, session, inflight,
    reqSeq, is_registered, is_authenticated, credentials, opCalls, lastCall,
    delivered, message_calls, alert_calls, lastDispatch, msgErrors,
    lastEvent, lastConnected, lastGiveUp, alertOp, alertIn, record, json_str,
    reread>>

NoDispatch ==
  [n |-> 0, msg |-> [type |-> "none", body |-> <<>>], handler |-> "none",
   data |-> <<>>, result |-> "none", error |-> "none"]

(* user_id, device_id and registration_code before authenticate: None. *)
NoCredentials == <<"None", "None", "None">>

(* A reconnect procedure: the counter it started with, the connect calls it
   has made, whether no session_start came since it started, and, once it has
   ended at the ceiling, its terminal error_handler invocations. *)
NoGiveUp == [c0 |-> 0, calls |-> 0, fresh |-> FALSE, terminal |-> 0]

NoCall ==
  [op |-> "none", by |-> "none", response |-> "none", raised |-> "none",
   batch |-> <<>>, data |-> [t |-> "null"]]

(* The state after Active911Client.__init__ and Active911Xmpp.__init__. *)
InitAll ==
  /\ driver \in {"client", "bare"}
  /\ handlers \in (IF driver = "client" THEN {ClientHandlers} ELSE BareHandlerConfigs)
  /\ connected = FALSE
  /\ reconnect_attempts = 0
  /\ keepalive = <<>>
  /\ presence = "unsent"
  /\ transport = "idle"
  /\ mainpc = "run"
  /\ sleepers = {}
  /\ tryCalls = 0
  /\ connectCalls = 0
  /\ runFailures = 0
  /\ runRaised = 0
  /\ reconnectFailures = 0
  /\ error_calls = [m \in {TerminalMessage, ConnectFailure} |-> 0]
  /\ discEvents = 0
  /\ lastDisconnect = "none"
  /\ escaped = 0
  /\ runDisc = 0
  /\ runTry = 0
  /\ runTerminal = 0
  /\ lastWait = <<0, 0>>
  /\ lastReset = -1
  /\ alert_handler \in (IF driver = "client" THEN BOOLEAN ELSE {FALSE})
  /\ session = "open"
  /\ inflight = {}
  /\ reqSeq = 0
  /\ is_registered = FALSE
  /\ is_authenticated = FALSE
  /\ credentials = NoCredentials
  /\ opCalls = 0
  /\ lastCall = NoCall
  /\ delivered = 0
  /\ message_calls = <<>>
  /\ alert_calls = <<>>
  /\ lastDispatch = NoDispatch
  /\ msgErrors = 0
  /\ lastEvent = "none"
  /\ lastConnected = "none"
  /\ lastGiveUp = NoGiveUp
  /\ alertOp = "none"
  /\ alertIn = [t |-> "null"] /\ record = [t |-> "null"]
  /\ json_str = [t |-> "null"] /\ reread = [t |-> "null"]

(* The client as the sample script sets it up: alert_handler registered. *)
Init == InitAll /\ (driver = "client" => alert_handler)

(* ---------------------------------------------------------------------- *)
(* Helpers of the supervisor                                              *)
(* ---------------------------------------------------------------------- *)

HasHandler(h) == h \in handlers

(* error_handler(msg), guarded by hasattr: the invocations afterwards. *)
ErrorHandler(calls, msg) ==
  IF HasHandler("error_handler") THEN [calls EXCEPT ![msg] = @ + 1] ELSE calls

(* A double count of the attempt. *)
NextAttemptTwice(a) == a + 2

(* try_reconnect: self.reconnect_attempts += 1 *)
NextAttempt(a) == a + 1

(* No ceiling at all. *)
CeilingNeverBreached(a) == FALSE

(* The ceiling taken one attempt early. *)
CeilingBreachedAtMax(a) == a >= max_reconnect_attempts

(* try_reconnect: self.reconnect_attempts > self.settings['max_reconnect_attempts'] *)
CeilingBreached(a) == a > max_reconnect_attempts

(* The exponential backoff the docstring of try_reconnect speaks of. *)
BackoffDelayExponential(a) == reconnect_delay * 2 ^ (a - 1)

(* try_reconnect: delay = self.settings['reconnect_delay'] * self.reconnect_attempts *)
BackoffDelay(a) == reconnect_delay * a

(* A reset that leaves a counter past the ceiling alone. *)
SessionStartAttemptsBelowCeiling(a) == IF a > max_reconnect_attempts THEN a ELSE 0

(* _on_session_start: self.reconnect_attempts = 0 *)
SessionStartAttempts(a) == 0

(* What a connect call that returns does to the transport: a new connection
   attempt is under way, replacing whatever connection there was. *)
ConnectIssued == "connecting"

(* try_reconnect from its first line to its first suspension point (the sleep)
   or its return (the ceiling).  S and E are the suspended invocations and the
   error_handler invocations as the caller leaves them; proc is the reconnect
   procedure this invocation belongs to. *)
TryReconnect(S, E, proc) ==
  LET n == NextAttempt(reconnect_attempts) IN
  /\ reconnect_attempts' = n
  /\ tryCalls' = tryCalls + 1
  /\ runTry' = runTry + 1
  /\ IF CeilingBreached(n)
       THEN /\ error_calls' = ErrorHandler(E, TerminalMessage)
            /\ runTerminal' = runTerminal + (IF HasHandler("error_handler") THEN 1 ELSE 0)
            /\ sleepers' = S
            /\ lastGiveUp' =
                 [c0 |-> proc.c0, calls |-> proc.calls, fresh |-> proc.fresh,
                  terminal |-> ErrorHandler(E, TerminalMessage)[TerminalMessage]
                                 - E[TerminalMessage]]
       ELSE /\ error_calls' = E
            /\ runTerminal' = runTerminal
            /\ sleepers' = S \cup {[id |-> tryCalls + 1, k |-> runTry + 1,
                                    delay |-> BackoffDelay(n), c0 |-> proc.c0,
                                    calls |-> proc.calls, fresh |-> proc.fresh]}
            /\ lastGiveUp' = lastGiveUp

(* asyncio.sleep(delay): of two suspended invocations, the one that began to
   sleep no later and asked for no longer a delay resumes first. *)
SleepElapsed(s) == \A o \in sleepers : ~(o.id < s.id /\ o.delay <= s.delay)

(* ---------------------------------------------------------------------- *)
(* The HTTP gateway of Active911Client, as far as the handlers call it    *)
(* ---------------------------------------------------------------------- *)

(* What comes back for a request: result "success"; a non-success result with
   message "Unauthorized" or with another message; session.post raising
   (network error); a body response.json() rejects or one without "result"
   (malformed response). *)
ResponseOutcomes ==
  {"success", "unauthorized", "api_error", "network_error", "malformed_response"}

(* The errors raised inside the try of post_request, before its except. *)
PostRequestRaises(outcome) ==
  IF outcome = "success" THEN "none"
  ELSE IF outcome = "unauthorized" THEN "Active911AuthenticationError"
  ELSE IF outcome = "api_error" THEN "Active911Error"
  ELSE "Exception"

(* post_request: what reaches its caller.  The raise of
   Active911AuthenticationError and of Active911Error sits inside the try whose
   except Exception wraps everything into Active911ConnectionError. *)
PostRequestResult(outcome) ==
  IF outcome = "success" THEN "return" ELSE "Active911ConnectionError"

(* An except branch that raises without closing the session. *)
SessionLeftOpen(outcome) == session

(* post_request: the except branch closes the session before it raises. *)
SessionAfter(outcome) == IF outcome = "success" THEN session ELSE "closed"

(* The request a task leaves in flight when it suspends in session.post. *)
Request(op, n, arg) ==
  [req |-> reqSeq + 1, op |-> op, n |-> n, arg |-> arg, by |-> "event"]

(* The same for an operation the user of the client awaits directly. *)
DirectRequest(op, arg) ==
  [req |-> reqSeq + 1, op |-> op, n |-> 0, arg |-> arg, by |-> "caller"]

(* The answers that can still arrive: a closed session delivers no response. *)
OutcomesNow == IF session = "open" THEN ResponseOutcomes ELSE {"network_error"}

(* register_device, authenticate, fetch_alert, fetch_all_alerts: each body is
   try: ... except Exception as e: raise Active911ConnectionError.  What the
   caller gets for what was raised inside. *)
OperationRaises(raised) ==
  IF raised = "none" THEN "none" ELSE "Active911ConnectionError"

(* JSON values of a response: objects as sets of <<key, value>>, strings, null. *)
Obj(fields) == [t |-> "obj", fields |-> fields]
Str(text) == [t |-> "str", s |-> text]
Null == [t |-> "null"]
Raised(error) == [t |-> "raise", error |-> error]

HasKey(val, key) == \E kv \in val.fields : kv[1] = key
Lookup(val, key) == (CHOOSE kv \in val.fields : kv[1] = key)[2]

(* dict.get(key, default) evaluated on whatever the previous step produced. *)
Get(val, key, default) ==
  IF val.t = "raise" THEN val
  ELSE IF val.t # "obj" THEN Raised("AttributeError")
  ELSE IF HasKey(val, key) THEN Lookup(val, key)
  ELSE default

(* Python truthiness of a JSON value. *)
Truthy(val) ==
  IF val.t = "obj" THEN val.fields # {}
  ELSE IF val.t = "str" THEN val.s # ""
  ELSE FALSE

CredentialKeys == <<"user_id", "device_id", "registration_code">>

DeviceInfo == Obj({<<"user_id", Str("u1")>>, <<"device_id", Str("d1")>>,
                   <<"registration_code", Str("r1")>>})

(* Success responses to operation=init: the data post_request returns. *)
InitResponses ==
  { Obj({<<"message", Obj({<<"device", Obj({<<"info", DeviceInfo>>})>>})>>}),
    Obj({}),
    Obj({<<"message", Obj({})>>}),
    Obj({<<"message", Obj({<<"device", Obj({})>>})>>}),
    Obj({<<"message", Obj({<<"device", Obj({<<"info", Obj({})>>})>>})>>}),
    Obj({<<"message", Obj({<<"device", Obj({<<"info", Null>>})>>})>>}),
    Obj({<<"message", Str("OK")>>}),
    Obj({<<"message", Null>>}),
    Obj({<<"message", Obj({<<"device", Null>>})>>}),
    Obj({<<"message",
           Obj({<<"device", Obj({<<"info", Obj({<<"user_id", Str("u1")>>})>>})>>})>>}) }

(* authenticate after post_request returned data: the .get chain, then the
   three assignments in order, then is_authenticated = True.  An exception
   stops it where it stands, the assignments before it kept. *)
Authenticate(data, creds, flag) ==
  LET info == Get(Get(Get(data, "message", Obj({})), "device", Obj({})), "info", Null)
      G[i \in 0..3] ==
        IF i = 0 THEN [creds |-> creds, raised |-> "none"]
        ELSE IF G[i - 1].raised # "none" THEN G[i - 1]
        ELSE IF info.t # "obj" THEN [creds |-> G[i - 1].creds, raised |-> "TypeError"]
        ELSE IF ~HasKey(info, CredentialKeys[i])
          THEN [creds |-> G[i - 1].creds, raised |-> "KeyError"]
        ELSE [creds |-> [G[i - 1].creds EXCEPT ![i] = Lookup(info, CredentialKeys[i]).s],
              raised |-> "none"]
  IN IF info.t = "raise"
       THEN [creds |-> creds, flag |-> flag, raised |-> info.error]
     ELSE IF ~Truthy(info)
       THEN [creds |-> creds, flag |-> flag, raised |-> "none"]
     ELSE [creds |-> G[3].creds,
           flag |-> IF G[3].raised = "none" THEN TRUE ELSE flag,
           raised |-> G[3].raised]

(* post_request retried by the operation that called it. *)
GatewayRetries == "retry"

(* What an operation does with the error of post_request: its except branch
   raises Active911ConnectionError; it makes no second call. *)
GatewayAfterError == "raise"

(* The record of an operation that ended. *)
Ended(r, outcome, raised, batch, data) ==
  [op |-> r.op, by |-> r.by, response |-> outcome, raised |-> OperationRaises(raised),
   batch |-> batch, data |-> data]

(* An operation called on a closed session: session.post raises at once. *)
EndedOnClosedSession(op, by) ==
  [op |-> op, by |-> by, response |-> "session_closed",
   raised |-> OperationRaises(PostRequestResult("session_closed")),
   batch |-> <<>>, data |-> Null]

(* The request of r sent again. *)
Reissue(r) ==
  /\ inflight' = (inflight \ {r}) \cup {[r EXCEPT !.req = reqSeq + 1]}
  /\ reqSeq' = reqSeq + 1

Retried(outcome) ==
  PostRequestResult(outcome) # "return" /\ GatewayAfterError = "retry"

(* The message ids a caller may ask fetch_alert for. *)
MessageIds == {<<"1">>, <<"2">>}

(* The alert payload the server holds for a message id. *)
AlertPayload(message_id) == [alert_for |-> message_id]

(* Success responses to operation=fetch_alert: the data post_request returns,
   with the payload under "message" or without that key. *)
FetchAlertResponses(message_id) ==
  {Obj({<<"message", AlertPayload(message_id)>>}), Obj({})}

(* alert_handler handed the whole response. *)
HandlerArgumentWholeResponse(data) == data

(* fetch_alert: await self.alert_handler(data["message"]) *)
HandlerArgument(data) == Lookup(data, "message")

(* json.loads of a bulk entry given as a string. *)
JsonLoads(text) ==
  IF Len(text) = 5 /\ text[1] = "{" /\ text[2] = "id" /\ text[3] = ":" /\ text[5] = "}"
    THEN [ok |-> TRUE, id |-> text[4]]
    ELSE [ok |-> FALSE, id |-> "?"]

ObjEntry(i) == [enc |-> "obj", id |-> i, text |-> <<>>]
StrEntry(i) == [enc |-> "str", id |-> "?", text |-> <<"{", "id", ":", i, "}">>]
BadEntry == [enc |-> "str", id |-> "?", text |-> <<"{", "id">>]

(* bulk_fetch_alerts responses the server may give. *)
BulkBatches ==
  { <<>>,
    <<ObjEntry("1"), StrEntry("2")>>,
    <<StrEntry("1"), ObjEntry("2"), StrEntry("3")>>,
    <<ObjEntry("1"), ObjEntry("1")>>,
    <<StrEntry("1"), BadEntry>>,
    <<BadEntry, ObjEntry("2")>> }

(* An entry handed on as it came, a string left undecoded. *)
EntryObjectUndecoded(e) == [ok |-> TRUE, id |-> e.id]

(* fetch_all_alerts: alert_obj = json.loads(alert) if isinstance(alert, str) else alert *)
EntryObject(e) ==
  IF e.enc = "str" THEN JsonLoads(e.text) ELSE [ok |-> TRUE, id |-> e.id]

(* The first entry of the batch the for loop stops at (Len + 1: none), and
   whether alert_handler was invoked for that entry: it stops at a string that
   json.loads rejects, or at the entry raiseAt for which alert_handler raises. *)
FirstBad(batch) ==
  LET bad == {i \in 1..Len(batch) : ~EntryObject(batch[i]).ok} IN
  IF bad = {} THEN Len(batch) + 1 ELSE CHOOSE i \in bad : \A j \in bad : i <= j

BulkDeliveries(batch, raiseAt) ==
  LET stop == IF raiseAt >= 1 /\ raiseAt < FirstBad(batch) THEN raiseAt
              ELSE FirstBad(batch) - 1
  IN [i \in 1..stop |-> [n |-> 0, payload |-> [id |-> EntryObject(batch[i]).id]]]

BulkCompletes(batch, raiseAt) ==
  FirstBad(batch) = Len(batch) + 1 /\ raiseAt = 0

(* ---------------------------------------------------------------------- *)
(* The message parser of _on_message                                      *)
(* ---------------------------------------------------------------------- *)

(* body.split(':'), the body a sequence of characters; a token is the
   sequence of the characters between two colons. *)
RECURSIVE Split(_)
Split(s) ==
  IF s = <<>> THEN << <<>> >>
  ELSE LET rest == Split(Tail(s)) IN
       IF Head(s) = ":" THEN << <<>> >> \o rest
       ELSE << <<Head(s)>> \o Head(rest) >> \o Tail(rest)

(* The tokens a command reads, message_components[0] included. *)
TokensRead(command) ==
  IF command = <<"assignment">> THEN 4
  ELSE IF command = <<"message">> THEN 5
  ELSE IF command = <<"response">> THEN 4
  ELSE IF command = <<"popup">> THEN 3
  ELSE 1

(* A dispatch without the else branch: whatever is not an assignment, a
   message or a response goes to popup_handler. *)
HandlerOfKnownOnly(command) ==
  IF command = <<"assignment">> THEN "assignment_handler"
  ELSE IF command = <<"message">> THEN "message_handler"
  ELSE IF command = <<"response">> THEN "response_handler"
  ELSE "popup_handler"

(* The handler attribute each branch of _on_message looks up. *)
HandlerOf(command) ==
  IF command = <<"assignment">> THEN "assignment_handler"
  ELSE IF command = <<"message">> THEN "message_handler"
  ELSE IF command = <<"response">> THEN "response_handler"
  ELSE IF command = <<"popup">> THEN "popup_handler"
  ELSE "unknown_command_handler"

(* message_data with the first two fields taken from each other's index. *)
MessageDataSwapped(c) ==
  LET command == c[1] IN
  IF command = <<"assignment">>
    THEN [command |-> command, device_id |-> c[3], agency_id |-> c[2],
          assignment_id |-> c[4]]
  ELSE IF command = <<"message">>
    THEN [command |-> command, message_id |-> c[3], alert_id |-> c[2],
          sound |-> c[4], message |-> c[5]]
  ELSE IF command = <<"response">>
    THEN [command |-> command, device_id |-> c[3], action |-> c[2],
          alert_id |-> c[4]]
  ELSE IF command = <<"popup">>
    THEN [command |-> command, device_id |-> c[3], message |-> c[2]]
  ELSE [command |-> command]

(* message_data as the branch of the command fills it; c[i + 1] is
   message_components[i]. *)
MessageData(c) ==
  LET command == c[1] IN
  IF command = <<"assignment">>
    THEN [command |-> command, device_id |-> c[2], agency_id |-> c[3],
          assignment_id |-> c[4]]
  ELSE IF command = <<"message">>
    THEN [command |-> command, message_id |-> c[2], alert_id |-> c[3],
          sound |-> c[4], message |-> c[5]]
  ELSE IF command = <<"response">>
    THEN [command |-> command, device_id |-> c[2], action |-> c[3],
          alert_id |-> c[4]]
  ELSE IF command = <<"popup">>
    THEN [command |-> command, device_id |-> c[2], message |-> c[3]]
  ELSE [command |-> command]

(* The body parsed: IndexError when the command reads a token the body lacks. *)
ParseCommand(body) ==
  LET c == Split(body) IN
  IF Len(c) < TokensRead(c[1])
    THEN [error |-> "IndexError", handler |-> HandlerOf(c[1]), data |-> <<>>]
    ELSE [error |-> "none", handler |-> HandlerOf(c[1]), data |-> MessageData(c)]

Body(tokens) ==
  LET F[i \in 0..Len(tokens)] ==
        IF i = 0 THEN <<>>
        ELSE IF i = 1 THEN <<tokens[1]>>
        ELSE F[i - 1] \o <<":", tokens[i]>>
  IN F[Len(tokens)]

(* The commands the server may send, token by token: complete ones, one with
   a colon inside its text, an unknown one, and ones cut short. *)
Commands ==
  { <<"assignment", "42", "7", "99">>,
    <<"message", "1", "2", "default", "Hi">>,
    <<"message", "2", "2", "default", "Hi">>,
    <<"response", "42", "ack", "2">>,
    <<"popup", "5", "hello">>,
    <<"popup", "5", "fire", "main st">>,
    <<"foo", "bar">>,
    <<"message", "1", "2">>,
    <<"assignment", "42", "7">>,
    <<"response", "42">>,
    <<"popup">> }

(* Inbound messages the transport may deliver. *)
Bodies == {Body(tokens) : tokens \in Commands} \cup {<<>>}

Inbound ==
  [type : {"chat"}, body : Bodies]
    \cup [type : {"normal", "groupchat", "headline", "error"},
          body : {Body(<<"message", "1", "2", "default", "Hi">>)}]

(* ---------------------------------------------------------------------- *)
(* The caller of run(): Active911Client.active911_xmpp, or a bare caller  *)
(* ---------------------------------------------------------------------- *)

(* Where run()'s Active911ConnectionError lands: the client loop catches it and
   sleeps 5 s before it calls run() again; a bare caller receives it. *)
RunRaised == IF driver = "client" THEN "retry_sleep" ELSE "raised"

(* run() returned: the client loop polls for connected; a bare caller is done. *)
RunReturned == IF driver = "client" THEN "wait_connected" ELSE "done"

(* run swallowing the connect error. *)
RunSwallowsConnectError == "return"

(* run: the except branch ends with raise Active911ConnectionError. *)
RunAfterConnectError == "raise"

(* Active911Xmpp.run, the connect call returning. *)
RunConnects ==
  /\ mainpc = "run"
  /\ connectCalls' = connectCalls + 1
  /\ transport' = ConnectIssued
  /\ mainpc' = RunReturned
  /\ UNCHANGED <<config, alertVars, lifecycleVars, connected, reconnect_attempts, sessionVars, tryVars,
                 runFailures, runRaised, reconnectFailures, lastWait, discVars,
                 escaped, httpVars, dispatchVars>>

(* Active911Xmpp.run, the connect call raising: error_handler(str(e)), then
   raise Active911ConnectionError. *)
RunFails ==
  /\ mainpc = "run"
  /\ runFailures + reconnectFailures < MaxConnectFailures
  /\ connectCalls' = connectCalls + 1
  /\ runFailures' = runFailures + 1
  /\ error_calls' = ErrorHandler(error_calls, ConnectFailure)
  /\ IF RunAfterConnectError = "raise"
       THEN runRaised' = runRaised + 1 /\ mainpc' = RunRaised
       ELSE runRaised' = runRaised /\ mainpc' = RunReturned
  /\ UNCHANGED <<config, alertVars, lifecycleVars, connected, reconnect_attempts, sessionVars, transport,
                 sleepers, tryCalls, runTry, runTerminal, lastGiveUp,
                 reconnectFailures, lastWait, discVars, escaped, httpVars,
                 dispatchVars>>

(* active911_xmpp: while not xmpp.connected: sleep(0.1) ends. *)
ClientSeesConnected ==
  /\ driver = "client" /\ mainpc = "wait_connected" /\ connected
  /\ mainpc' = "alive"
  /\ UNCHANGED <<config, alertVars, lifecycleVars, connected, reconnect_attempts, sessionVars, transport,
                 tryVars, connectVars, discVars, escaped, httpVars, dispatchVars>>

(* active911_xmpp: while xmpp.connected: sleep(1) ends; the while True loop
   goes round to xmpp.run(). *)
ClientSeesDisconnected ==
  /\ driver = "client" /\ mainpc = "alive" /\ ~connected
  /\ mainpc' = "run"
  /\ UNCHANGED <<config, alertVars, lifecycleVars, connected, reconnect_attempts, sessionVars, transport,
                 tryVars, connectVars, discVars, escaped, httpVars, dispatchVars>>

(* active911_xmpp: except Active911ConnectionError: sleep(5); continue. *)
ClientRetries ==
  /\ driver = "client" /\ mainpc = "retry_sleep"
  /\ mainpc' = "run"
  /\ UNCHANGED <<config, alertVars, lifecycleVars, connected, reconnect_attempts, sessionVars, transport,
                 tryVars, connectVars, discVars, escaped, httpVars, dispatchVars>>

(* ---------------------------------------------------------------------- *)
(* Transport events and their handlers                                    *)
(* ---------------------------------------------------------------------- *)

(* The flag never cleared. *)
FlagAlwaysSet(event) == TRUE

(* _on_connected: self.connected = True; _on_disconnected: self.connected = False *)
FlagAfter(event) == event = "connected"

(* What connected_handler can do: the client's is fetch_all_alerts, which
   suspends in post_request; a bare user's returns or raises. *)
ConnectedHandlerOutcomes ==
  IF ~HasHandler("connected_handler") THEN {"absent"}
  ELSE IF driver = "client" THEN {"awaited"}
  ELSE {"returns", "raises"}

(* "connected": _on_connected.  The client's connected_handler is
   fetch_all_alerts, which suspends in post_request; on a closed session post
   raises at once and the Active911ConnectionError leaves the handler. *)
OnConnected ==
  /\ transport = "connecting"
  /\ transport' = "up"
  /\ connected' = FlagAfter("connected")
  /\ lastEvent' = "connected"
  /\ \E outcome \in ConnectedHandlerOutcomes :
       /\ lastConnected' = outcome
       /\ IF outcome = "awaited"
            THEN /\ opCalls' = opCalls + 1
                 /\ reqSeq' = reqSeq + 1
                 /\ IF session = "open"
                      THEN /\ inflight' =
                                inflight \cup {Request("bulk_fetch_alerts", 0, <<>>)}
                           /\ UNCHANGED <<escaped, lastCall>>
                      ELSE /\ escaped' = escaped + 1
                           /\ lastCall' = EndedOnClosedSession("bulk_fetch_alerts", "event")
                           /\ inflight' = inflight
            ELSE /\ escaped' = escaped + (IF outcome = "raises" THEN 1 ELSE 0)
                 /\ UNCHANGED <<inflight, reqSeq, opCalls, lastCall>>
  /\ UNCHANGED <<config, alertVars, mainpc, reconnect_attempts, sessionVars, tryVars,
                 connectVars, discVars, session, alert_calls, accountVars,
                 dispatchVars>>

(* "session_start": _on_session_start. *)
OnSessionStart ==
  /\ transport = "up"
  /\ transport' = "session"
  /\ presence' = "available"
  /\ keepalive' = <<keepalive_interval, keepalive_timeout>>
  /\ reconnect_attempts' = SessionStartAttempts(reconnect_attempts)
  /\ lastReset' = reconnect_attempts
  /\ runDisc' = 0 /\ runTry' = 0 /\ runTerminal' = 0
  /\ sleepers' = {[s EXCEPT !.fresh = FALSE] : s \in sleepers}
  /\ UNCHANGED <<config, alertVars, lifecycleVars, mainpc, connected, tryCalls, error_calls,
                 lastGiveUp, connectVars, discEvents, lastDisconnect, escaped,
                 httpVars, dispatchVars>>

(* What disconnected_handler can do: the client's only logs; a bare user's may raise. *)
DisconnectedHandlerOutcomes ==
  IF ~HasHandler("disconnected_handler") THEN {"absent"}
  ELSE IF driver = "client" THEN {"returns"}
  ELSE {"returns", "raises"}

(* _on_disconnected without its try/except. *)
AfterDisconnectedHandlerUncaught(outcome) ==
  IF outcome = "raises" THEN "propagates" ELSE "continues"

(* _on_disconnected: try: await self.disconnected_handler() / except Exception:
   log.  What the handler's outcome leaves of the event handler. *)
AfterDisconnectedHandler(outcome) ==
  IF outcome = "raises" THEN "logged" ELSE "continues"

(* "disconnected": _on_disconnected, up to try_reconnect's first suspension. *)
OnDisconnected ==
  /\ transport \in {"up", "session"}
  /\ discEvents < MaxDisconnects
  /\ \E outcome \in DisconnectedHandlerOutcomes :
       /\ transport' = "idle"
       /\ connected' = FlagAfter("disconnected")
       /\ lastEvent' = "disconnected"
       /\ lastConnected' = lastConnected
       /\ discEvents' = discEvents + 1
       /\ runDisc' = runDisc + 1
       /\ lastDisconnect' = outcome
       /\ IF AfterDisconnectedHandler(outcome) \in {"logged", "continues"}
            THEN /\ TryReconnect(sleepers, error_calls,
                                 [c0 |-> reconnect_attempts, calls |-> 0, fresh |-> TRUE])
                 /\ escaped' = escaped
            ELSE escaped' = escaped + 1 /\ UNCHANGED <<reconnect_attempts, tryVars>>
  /\ UNCHANGED <<config, alertVars, mainpc, sessionVars, connectVars, httpVars, dispatchVars>>

(* try_reconnect giving up after a failed connect. *)
ReconnectGivesUp == "return"

(* try_reconnect: what follows error_handler in the except branch. *)
ReconnectAfterConnectError == "try_reconnect"

(* try_reconnect after its sleep, the connect call returning. *)
ReconnectConnects ==
  \E s \in sleepers :
    /\ SleepElapsed(s)
    /\ connectCalls' = connectCalls + 1
    /\ transport' = ConnectIssued
    /\ sleepers' = sleepers \ {s}
    /\ lastWait' = <<s.k, s.delay>>
    /\ UNCHANGED <<config, alertVars, lifecycleVars, mainpc, connected, reconnect_attempts, sessionVars,
                   tryCalls, error_calls, runTry, runTerminal, lastGiveUp,
                   runFailures, runRaised, reconnectFailures, discVars, escaped,
                   httpVars, dispatchVars>>

(* try_reconnect after its sleep, the connect call raising: error_handler(str(e)),
   then await self.try_reconnect(). *)
ReconnectFails ==
  \E s \in sleepers :
    /\ SleepElapsed(s)
    /\ runFailures + reconnectFailures < MaxConnectFailures
    /\ connectCalls' = connectCalls + 1
    /\ reconnectFailures' = reconnectFailures + 1
    /\ lastWait' = <<s.k, s.delay>>
    /\ IF ReconnectAfterConnectError = "try_reconnect"
         THEN TryReconnect(sleepers \ {s}, ErrorHandler(error_calls, ConnectFailure),
                           [c0 |-> s.c0, calls |-> s.calls + 1, fresh |-> s.fresh])
         ELSE /\ sleepers' = sleepers \ {s}
              /\ error_calls' = ErrorHandler(error_calls, ConnectFailure)
              /\ UNCHANGED <<reconnect_attempts, tryCalls, runTry, runTerminal,
                             lastGiveUp>>
    /\ UNCHANGED <<config, alertVars, lifecycleVars, mainpc, connected, sessionVars, transport, runFailures,
                   runRaised, discVars, escaped, httpVars, dispatchVars>>

(* ---------------------------------------------------------------------- *)
(* Message dispatch                                                       *)
(* ---------------------------------------------------------------------- *)

(* _on_message without its try/except. *)
AfterCommandHandlerUncaught(outcome) ==
  IF outcome = "raises" THEN "propagates" ELSE "continues"

(* _on_message: except Exception as e: log "Error processing message".  What
   the outcome of the awaited handler leaves of the event handler. *)
AfterCommandHandler(outcome) ==
  IF outcome = "raises" THEN "logged" ELSE "continues"

(* A dispatch of every message type. *)
DispatchedAnyType(type) == TRUE

(* _on_message: if msg['type'] in ('chat', 'normal') *)
Dispatched(type) == type \in {"chat", "normal"}

(* What a handler the user registered can do when awaited. *)
UserHandlerOutcomes == {"returns", "raises"}

(* A message taking the connection for lost. *)
ConnectedLostByMessage(flag) == FALSE

(* _on_message assigns no attribute of the supervisor: its only writes go to
   the local message_data and to the log. *)
ConnectedAfterMessage(flag) == flag

(* "message": _on_message up to its first suspension point.  The client's
   message_handler is Active911Client.message_handler, which awaits
   fetch_alert(message_data['message_id']) and suspends in post_request. *)
OnMessage ==
  /\ transport = "session"
  /\ delivered < MaxMessages
  /\ \E msg \in Inbound, outcome \in UserHandlerOutcomes :
       LET n == delivered + 1
           p == ParseCommand(msg.body)
           invoked == Dispatched(msg.type) /\ p.error = "none" /\ HasHandler(p.handler)
           toClient == invoked /\ driver = "client" /\ p.handler = "message_handler"
           result ==
             IF ~Dispatched(msg.type) THEN "ignored"
             ELSE IF p.error # "none" THEN "error"
             ELSE IF ~HasHandler(p.handler) THEN "dropped"
             ELSE IF toClient THEN (IF session = "open" THEN "awaiting" ELSE "error")
             ELSE IF outcome = "raises" THEN "error"
             ELSE "returned"
       IN /\ delivered' = n
          /\ lastDispatch' =
               [n |-> n, msg |-> msg, handler |-> IF invoked THEN p.handler ELSE "none",
                data |-> IF invoked THEN p.data ELSE <<>>, result |-> result,
                error |-> IF Dispatched(msg.type) THEN p.error ELSE "none"]
          /\ message_calls' =
               IF invoked /\ p.handler = "message_handler"
                 THEN Append(message_calls, [n |-> n, message_id |-> p.data.message_id])
                 ELSE message_calls
          /\ msgErrors' =
               msgErrors
                 + (IF result = "error" /\ AfterCommandHandler("raises") = "logged"
                      THEN 1 ELSE 0)
          /\ escaped' =
               escaped
                 + (IF result = "error" /\ AfterCommandHandler("raises") # "logged"
                      THEN 1 ELSE 0)
          /\ IF toClient
               THEN /\ opCalls' = opCalls + 1
                    /\ reqSeq' = reqSeq + 1
                    /\ IF session = "open"
                         THEN /\ inflight' = inflight
                                   \cup {Request("fetch_alert", n, p.data.message_id)}
                              /\ lastCall' = lastCall
                         ELSE /\ inflight' = inflight
                              /\ lastCall' = EndedOnClosedSession("fetch_alert", "event")
               ELSE UNCHANGED <<inflight, reqSeq, opCalls, lastCall>>
  /\ connected' = ConnectedAfterMessage(connected)
  /\ UNCHANGED <<config, alertVars, lifecycleVars, mainpc, transport, reconnect_attempts,
                 sessionVars, tryVars, connectVars, discVars, session,
                 alert_calls, accountVars>>

(* The response to a fetch_alert request: post_request returns or raises, then
   fetch_alert calls alert_handler(data["message"]); whatever is raised leaves
   fetch_alert as Active911ConnectionError, to the caller or, through
   message_handler, to _on_message's except, which logs it. *)
FetchAlertResponds ==
  \E r \in inflight, outcome \in OutcomesNow, handled \in UserHandlerOutcomes :
    \E data \in FetchAlertResponses(r.arg) :
      /\ r.op = "fetch_alert"
      /\ session' = SessionAfter(outcome)
      /\ IF Retried(outcome)
           THEN Reissue(r) /\ UNCHANGED <<alert_calls, msgErrors, escaped, lastCall>>
           ELSE LET returned == PostRequestResult(outcome) = "return"
                    called == returned /\ alert_handler /\ HasKey(data, "message")
                    raised == IF ~returned THEN PostRequestResult(outcome)
                              ELSE IF ~alert_handler THEN "none"
                              ELSE IF ~HasKey(data, "message") THEN "KeyError"
                              ELSE IF handled = "raises" THEN "Exception"
                              ELSE "none"
                    caught == r.by = "event" /\ raised # "none"
                IN /\ inflight' = inflight \ {r}
                   /\ reqSeq' = reqSeq
                   /\ alert_calls' =
                        IF called
                          THEN Append(alert_calls,
                                      [n |-> r.n, payload |-> HandlerArgument(data)])
                          ELSE alert_calls
                   /\ lastCall' =
                        Ended(r, outcome, raised, <<>>, IF returned THEN data ELSE Null)
                   /\ msgErrors' =
                        msgErrors
                          + (IF caught /\ AfterCommandHandler("raises") = "logged"
                               THEN 1 ELSE 0)
                   /\ escaped' =
                        escaped
                          + (IF caught /\ AfterCommandHandler("raises") # "logged"
                               THEN 1 ELSE 0)
      /\ UNCHANGED <<config, alertVars, lifecycleVars, mainpc, transport, connected, reconnect_attempts,
                     sessionVars, tryVars, connectVars, discVars, accountVars,
                     opCalls, delivered, message_calls, lastDispatch>>

(* The response to a bulk_fetch_alerts request: fetch_all_alerts passes the
   entries to alert_handler one by one; whatever is raised leaves
   fetch_all_alerts as Active911ConnectionError, to the caller or out of
   _on_connected. *)
FetchAllResponds ==
  \E r \in inflight, outcome \in OutcomesNow, batch \in BulkBatches :
    \E raiseAt \in 0..Len(batch) :
      /\ r.op = "bulk_fetch_alerts"
      /\ session' = SessionAfter(outcome)
      /\ IF Retried(outcome)
           THEN Reissue(r) /\ UNCHANGED <<alert_calls, escaped, lastCall>>
           ELSE LET returned == PostRequestResult(outcome) = "return"
                    raised == IF ~returned THEN PostRequestResult(outcome)
                              ELSE IF alert_handler /\ ~BulkCompletes(batch, raiseAt)
                                THEN "Exception"
                              ELSE "none"
                IN /\ inflight' = inflight \ {r}
                   /\ reqSeq' = reqSeq
                   /\ alert_calls' =
                        IF returned /\ alert_handler
                          THEN alert_calls \o BulkDeliveries(batch, raiseAt)
                          ELSE alert_calls
                   /\ lastCall' =
                        Ended(r, outcome, raised, IF returned THEN batch ELSE <<>>, Null)
                   /\ escaped' =
                        escaped + (IF r.by = "event" /\ raised # "none" THEN 1 ELSE 0)
      /\ UNCHANGED <<config, alertVars, lifecycleVars, mainpc, transport, connected, reconnect_attempts,
                     sessionVars, tryVars, connectVars, discVars, accountVars,
                     opCalls, dispatchVars>>

(* ---------------------------------------------------------------------- *)
(* The gateway operations awaited directly by the user of the client      *)
(* ---------------------------------------------------------------------- *)

(* An operation from its first line to its suspension in session.post, or to
   its raise when the session is closed.  The caller awaits one at a time. *)
Invoke(op, arg) ==
  /\ opCalls < MaxCalls
  /\ inflight = {}
  /\ session # "none"
  /\ opCalls' = opCalls + 1
  /\ reqSeq' = reqSeq + 1
  /\ IF session = "open"
       THEN inflight' = {DirectRequest(op, arg)} /\ lastCall' = lastCall
       ELSE inflight' = inflight /\ lastCall' = EndedOnClosedSession(op, "caller")
  /\ UNCHANGED <<config, alertVars, lifecycleVars, mainpc, transport, connected, reconnect_attempts,
                 sessionVars, tryVars, connectVars, discVars, escaped, session,
                 alert_calls, accountVars, dispatchVars>>

CallRegisterDevice == Invoke("register", <<>>)

CallAuthenticate == Invoke("init", <<>>)

CallFetchAlert == \E message_id \in MessageIds : Invoke("fetch_alert", message_id)

CallFetchAllAlerts == Invoke("bulk_fetch_alerts", <<>>)

(* The response to a register request: is_registered = True when post_request
   returns. *)
RegisterDeviceResponds ==
  \E r \in inflight, outcome \in OutcomesNow :
    /\ r.op = "register"
    /\ session' = SessionAfter(outcome)
    /\ IF Retried(outcome)
         THEN Reissue(r) /\ UNCHANGED <<is_registered, lastCall>>
         ELSE LET returned == PostRequestResult(outcome) = "return"
              IN /\ inflight' = inflight \ {r}
                 /\ reqSeq' = reqSeq
                 /\ is_registered' = (returned \/ is_registered)
                 /\ lastCall' =
                      Ended(r, outcome,
                            IF returned THEN "none" ELSE PostRequestResult(outcome),
                            <<>>, Null)
    /\ UNCHANGED <<config, alertVars, lifecycleVars, mainpc, transport, connected, reconnect_attempts,
                   sessionVars, tryVars, connectVars, discVars, escaped, alert_calls,
                   is_authenticated, credentials, opCalls, dispatchVars>>

(* The response to an init request: authenticate reads the credentials out of
   the data post_request returned. *)
AuthenticateResponds ==
  \E r \in inflight, outcome \in OutcomesNow, data \in InitResponses :
    /\ r.op = "init"
    /\ session' = SessionAfter(outcome)
    /\ IF Retried(outcome)
         THEN Reissue(r) /\ UNCHANGED <<is_authenticated, credentials, lastCall>>
         ELSE LET returned == PostRequestResult(outcome) = "return"
                  a == Authenticate(data, credentials, is_authenticated)
              IN /\ inflight' = inflight \ {r}
                 /\ reqSeq' = reqSeq
                 /\ credentials' = (IF returned THEN a.creds ELSE credentials)
                 /\ is_authenticated' = (IF returned THEN a.flag ELSE is_authenticated)
                 /\ lastCall' =
                      Ended(r, outcome,
                            IF returned THEN a.raised ELSE PostRequestResult(outcome),
                            <<>>, IF returned THEN data ELSE Null)
    /\ UNCHANGED <<config, alertVars, lifecycleVars, mainpc, transport, connected, reconnect_attempts,
                   sessionVars, tryVars, connectVars, discVars, escaped, alert_calls,
                   is_registered, opCalls, dispatchVars>>

(* ---------------------------------------------------------------------- *)
(* Specifications                                                         *)
(* ---------------------------------------------------------------------- *)

(* The supervisor and its caller: connection lifecycle and reconnection. *)
(* ---------------------------------------------------------------------- *)
(* Active911Alert: the alert record and its JSON conversions              *)
(* ---------------------------------------------------------------------- *)

(* Python values besides Obj (dict), Str (str) and Null (None).  The text of
   a str is a sequence of symbols: a symbol is one character, or a word or a
   number that stands for its run of characters. *)
Num(n) == [t |-> "int", v |-> n]
List(items) == [t |-> "list", items |-> items]
PageGroup(id) == [t |-> "PageGroup", id |-> id]
Active911Alert(f) == [t |-> "Active911Alert", f |-> f]

(* The fields of the record, in declaration order: one of each declared type
   (str, int, List[PageGroup], List[str]) and the two that equality and
   ordering read. *)
Fields == <<"address", "id", "pagegroups", "response_vocabulary", "timestamp", "units">>
FieldNames == {Fields[i] : i \in 1..Len(Fields)}

(* The dataclass defaults. *)
Default(name) ==
  IF name = "address" THEN Str(<<>>)
  ELSE IF name \in {"id", "timestamp"} THEN Num(0)
  ELSE List(<<>>)

(* PageGroup.from_dict: cls(id=data.get("id", "")) *)
PageGroup_from_dict(data) ==
  PageGroup(IF HasKey(data, "id") THEN Lookup(data, "id") ELSE Str(<<>>))

(* PageGroup.to_dict *)
PageGroup_to_dict(pg) == Obj({<<"id", pg.id>>})

(* str.split(): the runs of symbols between runs of whitespace. *)
RECURSIVE SplitWhitespace(_)
SplitWhitespace(s) ==
  IF s = <<>> THEN <<>>
  ELSE IF Head(s) = " " THEN SplitWhitespace(Tail(s))
  ELSE LET rest == SplitWhitespace(Tail(s)) IN
       IF Len(s) > 1 /\ s[2] # " "
         THEN << <<Head(s)>> \o Head(rest) >> \o Tail(rest)
         ELSE << <<Head(s)>> >> \o rest

RECURSIVE LStrip(_)
LStrip(s) == IF s # <<>> /\ Head(s) = " " THEN LStrip(Tail(s)) ELSE s

RECURSIVE RStrip(_)
RStrip(s) ==
  IF s # <<>> /\ s[Len(s)] = " " THEN RStrip(SubSeq(s, 1, Len(s) - 1)) ELSE s

(* str.strip() *)
Strip(s) == RStrip(LStrip(s))

NonEmpty(s) == s # <<>>

(* [unit.strip() for unit in self.units.split() if unit.strip()] *)
SplitUnits(s) ==
  LET parts == SplitWhitespace(s)
      stripped == [i \in 1..Len(parts) |-> Strip(parts[i])]
      kept == SelectSeq(stripped, NonEmpty)
  IN [i \in 1..Len(kept) |-> Str(kept[i])]

(* ---- json.dumps and json.loads on texts of symbols ---- *)

Quote == "\""
Backslash == "\\"

(* Keys in the order dumps writes them: the order of the dict, which for
   to_dict is the declaration order of the fields. *)
KeyOrder == Fields

RECURSIVE Escape(_)
Escape(s) ==
  IF s = <<>> THEN <<>>
  ELSE (IF Head(s) \in {Quote, Backslash} THEN <<Backslash, Head(s)>> ELSE <<Head(s)>>)
         \o Escape(Tail(s))

RECURSIVE dumps(_)
RECURSIVE DumpItems(_)
RECURSIVE DumpMembers(_, _)

(* json.dumps with its default separators ", " and ": ". *)
dumps(val) ==
  IF val.t = "null" THEN <<"null">>
  ELSE IF val.t = "int" THEN <<ToString(val.v)>>
  ELSE IF val.t = "str" THEN <<Quote>> \o Escape(val.s) \o <<Quote>>
  ELSE IF val.t = "list" THEN <<"[">> \o DumpItems(val.items) \o <<"]">>
  ELSE <<"{">> \o DumpMembers(val, KeyOrder) \o <<"}">>

DumpItems(items) ==
  IF Len(items) = 0 THEN <<>>
  ELSE dumps(Head(items))
         \o (IF Len(items) > 1 THEN <<",", " ">> ELSE <<>>)
         \o DumpItems(Tail(items))

DumpMembers(obj, keys) ==
  IF keys = <<>> THEN <<>>
  ELSE LET rest == DumpMembers(obj, Tail(keys)) IN
       IF ~HasKey(obj, Head(keys)) THEN rest
       ELSE <<Quote, Head(keys), Quote, ":", " ">>
              \o dumps(Lookup(obj, Head(keys)))
              \o (IF rest = <<>> THEN <<>> ELSE <<",", " ">>)
              \o rest

(* The result of a parse step: the value read and the text left, or the
   JSONDecodeError. *)
Fail == [ok |-> FALSE, val |-> Null, rest |-> <<>>]
Parsed(val, rest) == [ok |-> TRUE, val |-> val, rest |-> rest]

NumberSymbols == {ToString(n) : n \in 0..MaxNumber}
NumberOf(symbol) == CHOOSE n \in 0..MaxNumber : ToString(n) = symbol

(* The key of a member: a word is one symbol. *)
KeyOf(text) == IF Len(text) = 1 THEN text[1] ELSE "?"

RECURSIVE ParseValue(_)
RECURSIVE ParseString(_, _)
RECURSIVE ParseItems(_, _)
RECURSIVE ParseMembers(_, _)

ParseValue(text) ==
  LET s == LStrip(text) IN
  IF s = <<>> THEN Fail
  ELSE IF Head(s) = "null" THEN Parsed(Null, Tail(s))
  ELSE IF Head(s) \in NumberSymbols THEN Parsed(Num(NumberOf(Head(s))), Tail(s))
  ELSE IF Head(s) = Quote THEN ParseString(Tail(s), <<>>)
  ELSE IF Head(s) = "["
    THEN LET inner == LStrip(Tail(s)) IN
         IF inner # <<>> /\ Head(inner) = "]" THEN Parsed(List(<<>>), Tail(inner))
         ELSE ParseItems(Tail(s), <<>>)
  ELSE IF Head(s) = "{"
    THEN LET inner == LStrip(Tail(s)) IN
         IF inner # <<>> /\ Head(inner) = "}" THEN Parsed(Obj({}), Tail(inner))
         ELSE ParseMembers(Tail(s), {})
  ELSE Fail

ParseString(s, read) ==
  IF s = <<>> THEN Fail
  ELSE IF Head(s) = Quote THEN Parsed(Str(read), Tail(s))
  ELSE IF Head(s) = Backslash
    THEN IF Len(s) > 1 /\ s[2] \in {Quote, Backslash}
           THEN ParseString(Tail(Tail(s)), Append(read, s[2]))
           ELSE Fail
  ELSE ParseString(Tail(s), Append(read, Head(s)))

ParseItems(text, read) ==
  LET item == ParseValue(text)
      s == LStrip(item.rest)
  IN IF ~item.ok \/ s = <<>> THEN Fail
     ELSE IF Head(s) = "," THEN ParseItems(Tail(s), Append(read, item.val))
     ELSE IF Head(s) = "]" THEN Parsed(List(Append(read, item.val)), Tail(s))
     ELSE Fail

ParseMembers(text, read) ==
  LET s == LStrip(text)
      key == IF s # <<>> /\ Head(s) = Quote THEN ParseString(Tail(s), <<>>) ELSE Fail
      colon == LStrip(key.rest)
      member == IF key.ok /\ colon # <<>> /\ Head(colon) = ":"
                  THEN ParseValue(Tail(colon)) ELSE Fail
      after == LStrip(member.rest)
      fields == {kv \in read : kv[1] # KeyOf(key.val.s)}
                  \cup {<<KeyOf(key.val.s), member.val>>}
  IN IF ~member.ok \/ after = <<>> THEN Fail
     ELSE IF Head(after) = "," THEN ParseMembers(Tail(after), fields)
     ELSE IF Head(after) = "}" THEN Parsed(Obj(fields), Tail(after))
     ELSE Fail

(* json.loads: one value and nothing but whitespace after it. *)
loads(text) ==
  LET p == ParseValue(text) IN
  IF p.ok /\ LStrip(p.rest) = <<>> THEN p ELSE Fail

(* ---- the record ---- *)

(* __post_init__ *)
PostInit(f) ==
  LET rv == f.response_vocabulary
      pg == f.pagegroups
      u == f.units
  IN Active911Alert(
       [f EXCEPT
          !.response_vocabulary =
             IF rv.t = "str"
               THEN (LET p == loads(rv.s) IN IF p.ok THEN p.val ELSE List(<<>>))
             ELSE IF rv.t = "null" THEN List(<<>>)
             ELSE rv,
          !.pagegroups =
             IF pg.t = "null" THEN List(<<>>)
             ELSE IF pg.t = "list"
               THEN List([i \in 1..Len(pg.items) |->
                            IF pg.items[i].t = "obj"
                              THEN PageGroup_from_dict(pg.items[i])
                              ELSE pg.items[i]])
             ELSE pg,
          !.units =
             IF u.t = "str" THEN List(SplitUnits(u.s))
             ELSE IF u.t = "null" THEN List(<<>>)
             ELSE u])

(* The constructor called with keyword arguments: the generated __init__, then __post_init__. *)
cls(kwargs) ==
  IF \E kv \in kwargs.fields : kv[1] \notin FieldNames THEN Raised("TypeError")
  ELSE PostInit([name \in FieldNames |->
                   IF HasKey(kwargs, name) THEN Lookup(kwargs, name)
                   ELSE Default(name)])

(* from_dict handing every item to the constructor. *)
UnfilteredData(data) == data

(* from_dict: {k: v for k, v in data.items() if v is not None} *)
FilteredData(data) == Obj({kv \in data.fields : kv[2].t # "null"})

from_dict(data) ==
  IF data.t # "obj" THEN Raised("AttributeError")
  ELSE cls(FilteredData(data))

(* to_dict: asdict(self), every page group through to_dict, the
   response vocabulary through json.dumps.  pagegroups is a list in every
   record built here. *)
to_dict(x) ==
  LET pg == x.f.pagegroups.items IN
  IF \E i \in 1..Len(pg) : pg[i].t # "PageGroup" THEN Raised("AttributeError")
  ELSE Obj({<<name,
              IF name = "pagegroups"
                THEN List([i \in 1..Len(pg) |-> PageGroup_to_dict(pg[i])])
              ELSE IF name = "response_vocabulary"
                THEN Str(dumps(x.f.response_vocabulary))
              ELSE x.f[name]>> : name \in FieldNames})

to_json(x) ==
  LET data == to_dict(x) IN
  IF data.t = "raise" THEN data ELSE Str(dumps(data))

(* from_json without its except clause. *)
ExceptNothing(error) == FALSE

(* from_json: except json.JSONDecodeError *)
ExceptClause(error) == error = "JSONDecodeError"

from_json(text) ==
  LET p == loads(text)
      made == IF p.ok THEN from_dict(p.val) ELSE Raised("JSONDecodeError")
  IN IF made.t = "raise" /\ ExceptClause(made.error) THEN cls(Obj({})) ELSE made

(* ---- inputs ---- *)

Omitted == [t |-> "omitted"]

(* What a payload may give for each field: nothing, null, or a value. *)
PayloadChoices ==
  [address : {Omitted, Null, Str(<<"Main">>)},
   id : {Omitted, Null, Num(7)},
   timestamp : {Omitted, Null, Num(5)},
   pagegroups : {Omitted, Null,
                 List(<< Obj({<<"id", Str(<<"1">>)>>}) >>),
                 List(<< Str(<<"1">>) >>)},
   response_vocabulary :
     {Omitted, Null,
      Str(<<"[", Quote, "yes", Quote, ",", " ", Quote, "no", Quote, "]">>),
      Str(<<"yes", " ", "no">>),
      Str(<<"5">>),
      List(<< Str(<<"yes">>), Str(<<"no">>) >>),
      List(<< Str(<<" ", "yes">>), Str(<<>>) >>)},
   units : {Omitted, Null,
            Str(<<" ", "E1", " ", " ", "M2">>),
            List(<< Str(<<"E1">>) >>),
            List(<< Str(<<"E1", " ">>), Str(<<>>) >>)}]

Payload(choice) ==
  Obj({<<name, choice[name]>> : name \in {n \in FieldNames : choice[n].t # "omitted"}})

Payloads == {Payload(choice) : choice \in PayloadChoices}

(* Texts handed to from_json: not JSON, JSON that is no object, an object
   that is no alert, and alerts. *)
JsonTexts ==
  { <<>>,
    <<"alert">>,
    <<"{", Quote, "id", Quote>>,
    <<"{", Quote, "id", Quote, ":", " ", "7", "}", "}">>,
    <<"5">>,
    <<"null">>,
    <<"[", "7", "]">>,
    <<Quote, "alert", Quote>>,
    <<"{", Quote, "foo", Quote, ":", " ", "7", "}">>,
    <<"{", "}">>,
    <<"{", Quote, "id", Quote, ":", " ", "7", ",", " ",
           Quote, "timestamp", Quote, ":", " ", "5", "}">> }

(* ---- the operations, each applied to a fresh input ---- *)

(* Active911Alert.from_dict(payload) *)
FromDict ==
  /\ alertOp = "none"
  /\ \E payload \in Payloads :
       /\ alertIn' = payload
       /\ record' = from_dict(payload)
  /\ alertOp' = "from_dict"
  /\ UNCHANGED <<json_str, reread, supervisorVars>>

(* The constructor called with the keys of a payload, as the sample
   application builds its records. *)
Construct ==
  /\ alertOp = "none"
  /\ \E payload \in Payloads :
       /\ alertIn' = payload
       /\ record' = cls(payload)
  /\ alertOp' = "cls"
  /\ UNCHANGED <<json_str, reread, supervisorVars>>

(* Active911Alert.from_json(text) *)
FromJson ==
  /\ alertOp = "none"
  /\ \E text \in JsonTexts :
       /\ alertIn' = Str(text)
       /\ record' = from_json(text)
  /\ alertOp' = "from_json"
  /\ UNCHANGED <<json_str, reread, supervisorVars>>

(* x.to_json() on a record built before *)
ToJson ==
  /\ alertOp \in {"from_dict", "cls"}
  /\ record.t = "Active911Alert"
  /\ json_str' = to_json(record)
  /\ alertOp' = "to_json"
  /\ UNCHANGED <<alertIn, record, reread, supervisorVars>>

(* Active911Alert.from_json(x.to_json()) *)
ReadBack ==
  /\ alertOp = "to_json"
  /\ json_str.t = "str"
  /\ reread' = from_json(json_str.s)
  /\ alertOp' = "from_json(to_json)"
  /\ UNCHANGED <<alertIn, record, json_str, supervisorVars>>

Next ==
  \/ RunConnects
  \/ RunFails
  \/ ClientSeesConnected
  \/ ClientSeesDisconnected
  \/ ClientRetries
  \/ OnConnected
  \/ OnSessionStart
  \/ OnDisconnected
  \/ ReconnectConnects
  \/ ReconnectFails

Spec == Init /\ [][Next]_vars

(* One session: message dispatch and the HTTP fetches it starts. *)
NextDispatch ==
  \/ RunConnects
  \/ OnConnected
  \/ OnSessionStart
  \/ OnMessage
  \/ FetchAlertResponds
  \/ FetchAllResponds

SpecDispatch == InitAll /\ [][NextDispatch]_vars

(* What await self.session.close() does in __aexit__. *)
CloseOutcomes == {"closed", "raises"}

(* __aexit__, when the async with block of the client's user ends: the
   operations of the block have been awaited, and none is invoked after it.
   The assignments after a raising close are skipped; the except branch sets
   the session to None. *)
AExit ==
  /\ inflight = {}
  /\ session # "none"
  /\ \E close \in CloseOutcomes :
       /\ session' = "none"
       /\ is_authenticated' = (IF close = "closed" THEN FALSE ELSE is_authenticated)
       /\ is_registered' = (IF close = "closed" THEN FALSE ELSE is_registered)
  /\ UNCHANGED <<config, alertVars, lifecycleVars, mainpc, transport, connected,
                 reconnect_attempts, sessionVars, tryVars, connectVars, discVars,
                 escaped, inflight, reqSeq, alert_calls, credentials, opCalls,
                 lastCall, dispatchVars>>

(* The client's user awaiting gateway operations one after another. *)
InitGateway == InitAll /\ driver = "client"

NextGateway ==
  \/ CallRegisterDevice
  \/ CallAuthenticate
  \/ CallFetchAlert
  \/ CallFetchAllAlerts
  \/ RegisterDeviceResponds
  \/ AuthenticateResponds
  \/ FetchAlertResponds
  \/ FetchAllResponds

SpecGateway == InitGateway /\ [][NextGateway]_vars

(* The same user inside async with: the operations, then __aexit__. *)
NextLifetime ==
  \/ CallRegisterDevice
  \/ CallAuthenticate
  \/ CallFetchAlert
  \/ CallFetchAllAlerts
  \/ RegisterDeviceResponds
  \/ AuthenticateResponds
  \/ FetchAlertResponds
  \/ FetchAllResponds
  \/ AExit

SpecLifetime == InitGateway /\ [][NextLifetime]_vars

(* The alert record: one construction, then the way to JSON and back. *)
NextAlert ==
  \/ FromDict
  \/ Construct
  \/ FromJson
  \/ ToJson
  \/ ReadBack

SpecAlert == InitGateway /\ [][NextAlert]_vars

(* ---------------------------------------------------------------------- *)
(* Claims                                                                 *)
(* ---------------------------------------------------------------------- *)

(* C1: once reconnect_attempts exceeds max_reconnect_attempts no further
   connect call is issued, by the supervisor or by the active911_xmpp loop
   that drives it. *)
C1_ReconnectionCeases ==
  [][reconnect_attempts > max_reconnect_attempts => connectCalls' = connectCalls]_vars

(* C2: every session_start event leaves reconnect_attempts at 0, presence
   sent and keepalive enabled with the configured interval and timeout,
   whatever the counter was before. *)
C2_SessionStartResets ==
  [][transport = "up" /\ transport' = "session"
       => /\ reconnect_attempts' = 0
          /\ presence' = "available"
          /\ keepalive' = <<keepalive_interval, keepalive_timeout>>]_vars

(* C2, its case: a session_start that found the counter above the ceiling. *)
C2_ResetAboveCeiling ==
  /\ transport = "session"
  /\ lastReset > max_reconnect_attempts
  /\ reconnect_attempts = 0
  /\ presence = "available"

(* C3: each invocation of try_reconnect, from a disconnected event or from its
   own recursion, increases reconnect_attempts by exactly one, and no other
   step increases it. *)
C3_OneIncrementPerAttempt ==
  [][/\ tryCalls' # tryCalls
          => tryCalls' = tryCalls + 1 /\ reconnect_attempts' = reconnect_attempts + 1
     /\ reconnect_attempts' > reconnect_attempts => tryCalls' = tryCalls + 1]_vars

(* C3, its case: one invocation from an event and one from the recursion. *)
C3_EventAndRecursion ==
  /\ discEvents = 1 /\ reconnectFailures = 1
  /\ tryCalls = 2 /\ reconnect_attempts = 2

(* C4: the k-th reconnect attempt since the last session_start sleeps exactly
   k * reconnect_delay, and its connect call is issued after that sleep. *)
C4_LinearBackoff ==
  /\ \A s \in sleepers : s.delay = s.k * reconnect_delay
  /\ lastWait[2] = lastWait[1] * reconnect_delay

(* C4, its case: the third consecutive attempt connects after 3 * reconnect_delay. *)
C4_ThirdWait ==
  /\ runDisc = 3 /\ reconnectFailures = 0
  /\ lastWait = <<3, 3 * reconnect_delay>>

(* C5: in a run of disconnected events with no session_start between them, the
   (max_reconnect_attempts + 1)-th invokes error_handler once with the terminal
   message and issues no connect call, and over the whole run the terminal
   invocation happens exactly once. *)
C5_TerminalExactlyOnce ==
  [][/\ HasHandler("error_handler") /\ runDisc = max_reconnect_attempts
          /\ runDisc' = max_reconnect_attempts + 1
          => /\ error_calls'[TerminalMessage] = error_calls[TerminalMessage] + 1
             /\ connectCalls' = connectCalls
             /\ sleepers' = sleepers
     /\ runTerminal' <= 1]_vars

(* C6: every disconnected event starts try_reconnect, with no
   disconnected_handler, with one that returns and with one that raises, and
   the handler's exception does not leave _on_disconnected. *)
C6_DisconnectAlwaysReconnects ==
  [][discEvents' = discEvents + 1
       => tryCalls' = tryCalls + 1 /\ escaped' = escaped]_vars

(* C6, its case: the handler raised and try_reconnect ran all the same. *)
C6_HandlerRaised ==
  /\ lastDisconnect = "raises"
  /\ discEvents >= 1
  /\ tryCalls = discEvents + reconnectFailures

(* C7 as stated: no connect error, in run or in try_reconnect, is raised to a
   caller. *)
C7_NoErrorOutOfRun == runRaised = 0 /\ escaped = 0

(* C7 as amended: a connect call that fails in try_reconnect is caught and
   turned into another try_reconnect; one that fails in run is raised out of
   run as Active911ConnectionError, to the client loop's retry or to the bare
   caller. *)
C7_ConnectErrorHandling ==
  [][/\ reconnectFailures' = reconnectFailures + 1
          => escaped' = escaped /\ runRaised' = runRaised /\ tryCalls' = tryCalls + 1
     /\ runFailures' = runFailures + 1
          => /\ runRaised' = runRaised + 1
             /\ mainpc' = (IF driver = "client" THEN "retry_sleep" ELSE "raised")]_vars

(* C7, its case: run has raised once and try_reconnect has caught once. *)
C7_BothFailures == runRaised = 1 /\ reconnectFailures = 1 /\ escaped = 0

(* C8 as stated: error_handler is invoked only by a step that breaches the
   ceiling, never with the text of a failed connect. *)
C8_ErrorHandlerOnlyAtCeiling ==
  [][error_calls' # error_calls
       => /\ reconnect_attempts' > max_reconnect_attempts
          /\ error_calls'[ConnectFailure] = error_calls[ConnectFailure]]_vars

(* C8 as amended: the terminal message is passed to error_handler only by a
   try_reconnect that breaches the ceiling, once; the failure text only by a
   connect call that raised, in run or in try_reconnect, once; no other step
   invokes error_handler. *)
C8_ErrorHandlerInvocations ==
  [][/\ error_calls'[TerminalMessage] # error_calls[TerminalMessage]
          => /\ error_calls'[TerminalMessage] = error_calls[TerminalMessage] + 1
             /\ tryCalls' = tryCalls + 1
             /\ reconnect_attempts' > max_reconnect_attempts
     /\ error_calls'[ConnectFailure] # error_calls[ConnectFailure]
          => /\ error_calls'[ConnectFailure] = error_calls[ConnectFailure] + 1
             /\ runFailures' + reconnectFailures' = runFailures + reconnectFailures + 1]_vars

(* C8, its case: both texts have been passed to error_handler. *)
C8_BothTexts ==
  /\ error_calls[ConnectFailure] >= 1 /\ runFailures >= 1 /\ reconnectFailures >= 1
  /\ error_calls[TerminalMessage] >= 1

(* C9: a connect call that fails in try_reconnect invokes error_handler (if
   registered) with the failure text and starts the next attempt in the same
   step: the counter goes up by one and, below the ceiling, the only wait is
   that attempt's reconnect_delay * reconnect_attempts. *)
C9_FailedConnectRecurses ==
  [][reconnectFailures' = reconnectFailures + 1
       => /\ error_calls'[ConnectFailure] =
               error_calls[ConnectFailure] + (IF HasHandler("error_handler") THEN 1 ELSE 0)
          /\ tryCalls' = tryCalls + 1
          /\ reconnect_attempts' = reconnect_attempts + 1
          /\ reconnect_attempts' <= max_reconnect_attempts
               => \E s \in sleepers' \ sleepers :
                    /\ s.delay = reconnect_delay * reconnect_attempts'
                    /\ sleepers' \ sleepers = {s}]_vars

(* C9, its case: the first attempt's connect failed and the second attempt
   sleeps 2 * reconnect_delay. *)
C9_SecondAttemptSleeps ==
  /\ reconnectFailures = 1 /\ discEvents = 1 /\ reconnect_attempts = 2
  /\ error_calls[ConnectFailure] = 1
  /\ \E s \in sleepers : s.k = 2 /\ s.delay = 2 * reconnect_delay

InDeliveryOrder(calls) ==
  \A i, j \in 1..Len(calls) : i < j => calls[i].n < calls[j].n

FromMessage(call) == call.n > 0

(* C10: handler invocations, and the alert_handler invocations fetch_alert
   makes for them, follow the order in which the messages were delivered. *)
C10_DispatchInDeliveryOrder ==
  /\ InDeliveryOrder(message_calls)
  /\ InDeliveryOrder(SelectSeq(alert_calls, FromMessage))

(* C11: at no time are two HTTP requests in flight through the client's
   session. *)
C11_FetchesSequential == Cardinality(inflight) <= 1

KnownKinds == {"assignment", "message", "response", "popup"}

(* The handler and the record the claims give for a complete command. *)
ExpectedDispatch(tk) ==
  IF tk[1] = "assignment"
    THEN [handler |-> "assignment_handler",
          data |-> [command |-> <<tk[1]>>, device_id |-> <<tk[2]>>,
                    agency_id |-> <<tk[3]>>, assignment_id |-> <<tk[4]>>]]
  ELSE IF tk[1] = "message"
    THEN [handler |-> "message_handler",
          data |-> [command |-> <<tk[1]>>, message_id |-> <<tk[2]>>,
                    alert_id |-> <<tk[3]>>, sound |-> <<tk[4]>>, message |-> <<tk[5]>>]]
  ELSE IF tk[1] = "response"
    THEN [handler |-> "response_handler",
          data |-> [command |-> <<tk[1]>>, device_id |-> <<tk[2]>>,
                    action |-> <<tk[3]>>, alert_id |-> <<tk[4]>>]]
  ELSE IF tk[1] = "popup"
    THEN [handler |-> "popup_handler",
          data |-> [command |-> <<tk[1]>>, device_id |-> <<tk[2]>>,
                    message |-> <<tk[3]>>]]
  ELSE [handler |-> "unknown_command_handler", data |-> [command |-> <<tk[1]>>]]

TokensRequired(kind) ==
  IF kind = "assignment" THEN 4
  ELSE IF kind = "message" THEN 5
  ELSE IF kind = "response" THEN 4
  ELSE IF kind = "popup" THEN 3
  ELSE 1

(* C12: a chat/normal message with enough tokens invokes the handler of its
   kind, if registered, once, with the fields taken by fixed index, and no
   handler of another kind. *)
C12_FieldsByFixedIndex ==
  [][delivered' = delivered + 1
       => \A tk \in Commands :
            /\ lastDispatch'.msg.body = Body(tk)
            /\ lastDispatch'.msg.type \in {"chat", "normal"}
            /\ tk[1] \in KnownKinds
            /\ Len(tk) >= TokensRequired(tk[1])
            => IF ExpectedDispatch(tk).handler \in handlers
                 THEN /\ lastDispatch'.handler = ExpectedDispatch(tk).handler
                      /\ lastDispatch'.data = ExpectedDispatch(tk).data
                      /\ Len(message_calls') = Len(message_calls)
                           + (IF tk[1] = "message" THEN 1 ELSE 0)
                 ELSE /\ lastDispatch'.handler = "none"
                      /\ message_calls' = message_calls]_vars

(* C12, its case: "assignment:42:7:99" reached assignment_handler. *)
C12_AssignmentDispatched ==
  /\ lastDispatch.handler = "assignment_handler"
  /\ lastDispatch.data.device_id = <<"42">>
  /\ lastDispatch.data.agency_id = <<"7">>
  /\ lastDispatch.data.assignment_id = <<"99">>

(* C13: a body with fewer tokens than its kind requires makes the parser
   signal a ParseError, not an index-out-of-range failure, and no handler is
   invoked. *)
C13_ShortBodyParseError ==
  lastDispatch.error # "none"
    => lastDispatch.error = "ParseError" /\ lastDispatch.handler = "none"

(* C14: a message whose first token is no known kind goes to
   unknown_command_handler with a record of the command token alone, or is
   dropped when none is registered; nothing is raised out of _on_message and
   the connection state stays as it was. *)
C14_UnknownCommandPath ==
  [][delivered' = delivered + 1
       => \A tk \in Commands \cup {<<"">>} :
            /\ lastDispatch'.msg.body = (IF tk = <<"">> THEN <<>> ELSE Body(tk))
            /\ lastDispatch'.msg.type \in {"chat", "normal"}
            /\ tk[1] \notin KnownKinds
            => /\ IF "unknown_command_handler" \in handlers
                    THEN /\ lastDispatch'.handler = "unknown_command_handler"
                         /\ lastDispatch'.data =
                              [command |-> IF tk = <<"">> THEN <<>> ELSE <<tk[1]>>]
                    ELSE /\ lastDispatch'.handler = "none"
                         /\ lastDispatch'.result = "dropped"
                         /\ msgErrors' = msgErrors
               /\ escaped' = escaped
               /\ connected' = connected
               /\ transport' = transport
               /\ reconnect_attempts' = reconnect_attempts
               /\ sleepers' = sleepers]_vars

(* C14, its case: "foo:bar" reached unknown_command_handler as command foo. *)
C14_FooDispatched ==
  /\ lastDispatch.msg.body = <<"foo", ":", "bar">>
  /\ lastDispatch.handler = "unknown_command_handler"
  /\ lastDispatch.data = [command |-> <<"foo">>]

(* C15: a message whose type is neither chat nor normal produces no record,
   invokes no handler and starts nothing. *)
C15_OtherTypesIgnored ==
  [][(delivered' = delivered + 1
        /\ lastDispatch'.msg.type \notin {"chat", "normal"})
       => /\ lastDispatch'.handler = "none"
          /\ lastDispatch'.data = <<>>
          /\ lastDispatch'.result = "ignored"
          /\ message_calls' = message_calls
          /\ alert_calls' = alert_calls
          /\ inflight' = inflight
          /\ opCalls' = opCalls
          /\ msgErrors' = msgErrors]_vars

(* C15, its case: a groupchat message carrying a complete command, with every
   handler registered. *)
C15_GroupchatIgnored ==
  /\ lastDispatch.msg.type = "groupchat"
  /\ lastDispatch.result = "ignored"
  /\ "message_handler" \in handlers

(* C16: register_device raises Active911AuthenticationError to its caller when
   the server answers "Unauthorized", and Active911Error for any other
   non-success result. *)
C16_RegisterErrorKinds ==
  lastCall.op = "register"
    => /\ lastCall.response = "unauthorized"
            => lastCall.raised = "Active911AuthenticationError"
       /\ lastCall.response = "api_error" => lastCall.raised = "Active911Error"

(* C17: whichever of the four operations it is, a network error or a
   malformed response reaches the caller as Active911ConnectionError with the
   session closed. *)
C17_TransportFailureClosesSession ==
  lastCall.response \in {"network_error", "malformed_response"}
    => lastCall.raised = "Active911ConnectionError" /\ session = "closed"

(* C17, its case: authenticate got a malformed response after register_device
   had succeeded on the open session. *)
C17_MalformedInitResponse ==
  /\ is_registered
  /\ lastCall.op = "init"
  /\ lastCall.by = "caller"
  /\ lastCall.response = "malformed_response"
  /\ session = "closed"

(* C18: every call of a gateway operation makes one session.post call, and
   none makes a second one, whether it ends well or not. *)
C18_OneRequestPerCall == reqSeq = opCalls

(* C18, its case: a call that succeeded, then a call that failed; two
   requests in all. *)
C18_FailedCallNotRetried ==
  /\ is_registered
  /\ lastCall.op = "fetch_alert"
  /\ lastCall.raised = "Active911ConnectionError"
  /\ inflight = {}
  /\ opCalls = 2
  /\ reqSeq = 2

FullInitResponse ==
  Obj({<<"message", Obj({<<"device", Obj({<<"info", DeviceInfo>>})>>})>>})

(* Success responses to init in which message.device.info is missing. *)
LackingInfo ==
  { Obj({}),
    Obj({<<"message", Obj({})>>}),
    Obj({<<"message", Obj({<<"device", Obj({})>>})>>}),
    Obj({<<"message", Obj({<<"device", Obj({<<"info", Null>>})>>})>>}),
    Obj({<<"message", Str("OK")>>}),
    Obj({<<"message", Null>>}),
    Obj({<<"message", Obj({<<"device", Null>>})>>}) }

(* C19: authenticate, on a success response with message.device.info, stores
   the three credentials and sets is_authenticated; on a success response
   without it, it does not raise. *)
C19_AuthenticateOnSuccess ==
  lastCall.op = "init" /\ lastCall.response = "success"
    => /\ lastCall.data = FullInitResponse
            => /\ credentials = <<"u1", "d1", "r1">>
               /\ is_authenticated
               /\ lastCall.raised = "none"
       /\ lastCall.data \in LackingInfo => lastCall.raised = "none"

(* The id of the alert the server put into a bulk entry. *)
ServerId(e) == IF e.enc = "obj" THEN e.id ELSE e.text[4]

(* C20: a fetch_all_alerts that returns has passed every entry of the
   response to alert_handler once, decoded, in the server's order. *)
C20_BulkDeliversAllInOrder ==
  [][(/\ \E r \in inflight : r.op = "bulk_fetch_alerts" /\ r \notin inflight'
      /\ alert_handler
      /\ lastCall'.response = "success"
      /\ lastCall'.raised = "none")
       => alert_calls' =
            alert_calls
              \o [i \in 1..Len(lastCall'.batch) |->
                    [n |-> 0, payload |-> [id |-> ServerId(lastCall'.batch[i])]]]]_vars

(* C20, its case: string, object, string. *)
C20_MixedBatchDelivered ==
  /\ lastCall.op = "bulk_fetch_alerts"
  /\ lastCall.raised = "none"
  /\ Len(lastCall.batch) = 3
  /\ lastCall.batch[1].enc = "str" /\ lastCall.batch[2].enc = "obj"
  /\ Len(alert_calls) = 3
  /\ alert_calls[1].payload.id = "1"
  /\ alert_calls[2].payload.id = "2"
  /\ alert_calls[3].payload.id = "3"

(* C21: fetch_alert(message_id) posts one request; when it succeeds and
   carries the payload, alert_handler is invoked once with that payload as it
   came; when the request fails alert_handler is not invoked. *)
C21_FetchAlertDeliversPayload ==
  [][\A r \in inflight :
       r.op = "fetch_alert" /\ r \notin inflight'
         => /\ reqSeq' = reqSeq
            /\ lastCall'.op = "fetch_alert"
            /\ (/\ lastCall'.response = "success"
                /\ alert_handler
                /\ lastCall'.data = Obj({<<"message", AlertPayload(r.arg)>>}))
                 => alert_calls' =
                      Append(alert_calls, [n |-> r.n, payload |-> AlertPayload(r.arg)])
            /\ lastCall'.response # "success" => alert_calls' = alert_calls]_vars

(* C21, its case: fetch_alert("2") awaited by the caller returned. *)
C21_AlertTwoFetched ==
  /\ lastCall.op = "fetch_alert"
  /\ lastCall.by = "caller"
  /\ lastCall.response = "success"
  /\ lastCall.raised = "none"
  /\ reqSeq = 1
  /\ alert_calls = <<[n |-> 0, payload |-> AlertPayload(<<"2">>)]>>

(* C22: the connected flag is True exactly when the last of the events
   connected and disconnected was connected, and a connected event invokes
   connected_handler exactly when one is registered. *)
C22_FlagFollowsLastEvent ==
  /\ connected = (lastEvent = "connected")
  /\ lastEvent # "none"
       => (lastConnected = "absent") = ("connected_handler" \notin handlers)

(* C22, its case: connected, disconnected, connected again. *)
C22_ConnectedAgain ==
  /\ lastEvent = "connected"
  /\ discEvents >= 1
  /\ connected
  /\ lastConnected \in {"awaited", "returns", "raises"}

(* C27: reconnect_attempts stays between 0 and max_reconnect_attempts + 1. *)
C27_CounterRange ==
  0 <= reconnect_attempts /\ reconnect_attempts <= max_reconnect_attempts + 1

(* C28: a connect call is issued only while no other connect attempt is
   outstanding: none while the transport is connecting, and, while a
   try_reconnect waits out its delay, only by that one try_reconnect. *)
C28_OneOutstandingConnect ==
  [][connectCalls' # connectCalls
       => /\ transport # "connecting"
          /\ sleepers = {} \/ \E s \in sleepers : sleepers = {s} /\ s \notin sleepers']_vars

(* C29: a reconnect procedure that starts with the counter at c, at most
   max_reconnect_attempts, and sees no session_start makes at most
   max_reconnect_attempts - c connect calls; when every one of them fails it
   ends with one terminal error_handler invocation. *)
C29_ReconnectTerminates ==
  /\ \A s \in sleepers :
       s.fresh /\ s.c0 <= max_reconnect_attempts
         => s.calls + 1 <= max_reconnect_attempts - s.c0
  /\ lastGiveUp.fresh /\ lastGiveUp.c0 <= max_reconnect_attempts
       => /\ lastGiveUp.calls <= max_reconnect_attempts - lastGiveUp.c0
          /\ lastGiveUp.terminal = (IF "error_handler" \in handlers THEN 1 ELSE 0)

(* C29, its case: started by the second disconnected event of the run, with
   the counter at 1, every connect call failed and the procedure gave up. *)
C29_GaveUpAfterFailures ==
  /\ lastGiveUp.fresh
  /\ lastGiveUp.c0 = 1
  /\ lastGiveUp.calls = max_reconnect_attempts - 1
  /\ lastGiveUp.terminal = 1
  /\ reconnectFailures = lastGiveUp.calls

(* C30: an exception raised by a command handler while a message is dispatched
   is caught and logged inside _on_message: it does not reach the transport,
   the session stays as it was, and the handler of a later message runs as
   usual.  The same holds when the client's message_handler fails after its
   fetch_alert request has been answered. *)
C30_HandlerErrorsContained ==
  [][/\ (/\ delivered' = delivered + 1
          /\ lastDispatch'.handler # "none"
          /\ lastDispatch'.result = "error")
         => /\ escaped' = escaped
            /\ msgErrors' = msgErrors + 1
            /\ transport' = transport /\ connected' = connected
     /\ \A r \in inflight :
          (/\ r.op = "fetch_alert" /\ r.by = "event"
           /\ inflight' = inflight \ {r}
           /\ lastCall'.raised # "none")
            => /\ escaped' = escaped
               /\ msgErrors' = msgErrors + 1
               /\ transport' = transport /\ connected' = connected]_vars

(* C30, its case: the message_handler of the first message raised, and the
   handler of the second message was awaited and returned. *)
C30_SecondMessageHandled ==
  /\ driver = "bare" /\ handlers = HandlerNames
  /\ Len(message_calls) >= 1 /\ message_calls[1].n = 1
  /\ msgErrors = 1
  /\ lastDispatch.n = 2
  /\ lastDispatch.handler # "none"
  /\ lastDispatch.result = "returned"
  /\ escaped = 0

(* The defaults as documented: strings "", numbers 0, lists []. *)
DocumentedDefault(name) ==
  IF name \in {"address"} THEN [t |-> "str", s |-> <<>>]
  ELSE IF name \in {"id", "timestamp"} THEN [t |-> "int", v |-> 0]
  ELSE [t |-> "list", items |-> <<>>]

LeftOut(payload, name) ==
  ~HasKey(payload, name) \/ Lookup(payload, name).t = "null"

(* C23: from_dict on a payload that omits any subset of the fields, or gives
   them as null, does not raise, and every such field holds its default. *)
C23_MissingFieldsDefault ==
  alertOp = "from_dict"
    => /\ record.t = "Active911Alert"
       /\ \A name \in FieldNames :
            LeftOut(alertIn, name) => record.f[name] = DocumentedDefault(name)

(* C23, its case: id given as null, address and units omitted, timestamp
   given. *)
C23_NullIdOmittedAddress ==
  /\ alertOp = "from_dict"
  /\ ~HasKey(alertIn, "address") /\ ~HasKey(alertIn, "units")
  /\ HasKey(alertIn, "id") /\ Lookup(alertIn, "id").t = "null"
  /\ HasKey(alertIn, "timestamp") /\ Lookup(alertIn, "timestamp").t = "int"
  /\ record.t = "Active911Alert"
  /\ record.f.id = DocumentedDefault("id")
  /\ record.f.address = DocumentedDefault("address")
  /\ record.f.units = DocumentedDefault("units")
  /\ record.f.timestamp = Lookup(alertIn, "timestamp")

TrimmedNonEmpty(v) ==
  v.t = "str" /\ v.s # <<>> /\ Head(v.s) # " " /\ v.s[Len(v.s)] # " "

ListOfTrimmedStrings(v) ==
  v.t = "list" /\ \A i \in 1..Len(v.items) : TrimmedNonEmpty(v.items[i])

(* C24: after construction response_vocabulary and units are lists of trimmed
   non-empty strings, whether they were given as a space-delimited string, as
   a list or as null. *)
C24_ListFieldsNormalized ==
  (alertOp \in {"from_dict", "cls"} /\ record.t = "Active911Alert")
    => \A name \in {"response_vocabulary", "units"} :
         ListOfTrimmedStrings(record.f[name])

(* C25: from_json(x.to_json()) has the id and the timestamp of x, for every
   record x that was constructed. *)
C25_RoundTripKeepsIdAndTimestamp ==
  /\ (alertOp = "to_json") => (json_str.t = "str")
  /\ (alertOp = "from_json(to_json)")
       => /\ reread.t = "Active911Alert"
          /\ reread.f.id = record.f.id
          /\ reread.f.timestamp = record.f.timestamp

(* The record with every field at its default. *)
DefaultRecord ==
  [t |-> "Active911Alert", f |-> [name \in FieldNames |-> DocumentedDefault(name)]]

(* A text that is a JSON document of an alert: an object of fields of the
   record. *)
IsAlertDocument(text) ==
  /\ loads(text).ok
  /\ loads(text).val.t = "obj"
  /\ \A kv \in loads(text).val.fields : kv[1] \in FieldNames

(* C26, as the code has it: from_json on a text that is not well-formed JSON
   returns the default record. *)
C26_MalformedJsonGivesDefault ==
  (alertOp = "from_json" /\ ~loads(alertIn.s).ok) => record = DefaultRecord

(* C26, its case: an object cut off after its first key. *)
C26_TruncatedObject ==
  /\ alertOp = "from_json"
  /\ alertIn.s = <<"{", Quote, "id", Quote>>
  /\ record = DefaultRecord

(* C26 as stated: from_json on any text that is not a JSON document of an
   alert returns the default record and does not raise. *)
C26_NonAlertGivesDefault ==
  (alertOp = "from_json" /\ ~IsAlertDocument(alertIn.s)) => record = DefaultRecord

(* C31: handling an inbound message, whatever its type and body, changes
   neither the connected flag nor reconnect_attempts nor the settings of the
   session (keepalive, presence); the same holds when the fetch the client's
   message_handler awaits is answered. *)
C31_MessageLeavesSessionState ==
  [][(\/ delivered' # delivered
      \/ \E r \in inflight : r.op = "fetch_alert" /\ r.by = "event" /\ r \notin inflight')
       => /\ connected' = connected
          /\ reconnect_attempts' = reconnect_attempts
          /\ keepalive' = keepalive /\ presence' = presence
          /\ transport' = transport
          /\ sleepers' = sleepers]_vars

(* C31, its case: two messages handled in a session, the second one a chat
   message whose handler raised, and the connection still up. *)
C31_TwoMessagesStillConnected ==
  /\ delivered = 2
  /\ lastDispatch.msg.type = "chat"
  /\ lastDispatch.handler # "none" /\ lastDispatch.result = "error"
  /\ connected /\ reconnect_attempts = 0
  /\ keepalive = <<keepalive_interval, keepalive_timeout>>

(* C32: a gateway call made after a gateway call has failed still gets its
   request to the server, where it can be answered with success: the failure
   has left the session usable. *)
C32_FailedRequestKeepsClientUsable ==
  [][(opCalls' = opCalls + 1 /\ lastCall.raised # "none")
       => /\ session = "open"
          /\ inflight' # {}]_vars

(* C33: is_registered turns True only when a register_device call ends
   without raising, is_authenticated only when an authenticate call that got
   the nested device info does; a gateway call that raises leaves both flags
   and the stored credentials as they were; and is_authenticated implies that
   device_id and registration_code are set. *)
C33_FlagsTrackSuccess ==
  /\ [](is_authenticated => credentials[2] # "None" /\ credentials[3] # "None")
  /\ [][/\ (is_registered' /\ ~is_registered)
            => (lastCall'.op = "register" /\ lastCall'.raised = "none")
        /\ (is_authenticated' /\ ~is_authenticated)
            => (/\ lastCall'.op = "init" /\ lastCall'.raised = "none"
                /\ lastCall'.data = FullInitResponse)
        /\ (inflight' # inflight /\ inflight' = {} /\ lastCall'.raised # "none")
            => accountVars' = accountVars]_vars

(* C34: once __aexit__ has returned the session is None and is_authenticated
   and is_registered are both False, also when closing the session raised. *)
C34_TornDownAfterExit ==
  session = "none" => ~is_authenticated /\ ~is_registered

(* C35: over the connect, disconnect and reconnect events of one
   active911_xmpp run fetch_all_alerts, the only gateway operation the
   supervisor's lifecycle events invoke, is invoked at most once. *)
C35_BulkFetchOncePerRun ==
  /\ opCalls <= 1
  /\ Cardinality({r \in inflight : r.op = "bulk_fetch_alerts"}) <= 1

(* C36: in a fetch_all_alerts that got its batch, an entry that cannot be
   decoded, or for which alert_handler raises, does not keep the later
   entries from alert_handler: every entry that can be decoded is passed
   on. *)
C36_BulkContinuesAfterFailure ==
  [][(/\ \E r \in inflight : r.op = "bulk_fetch_alerts" /\ r \notin inflight'
      /\ alert_handler
      /\ lastCall'.response = "success")
       => Len(alert_calls') =
            Len(alert_calls)
              + Cardinality({i \in 1..Len(lastCall'.batch) :
                               EntryObject(lastCall'.batch[i]).ok})]_vars

====
